---- MODULE Spec2Model ----
(***************************************************************************)
(* Model of the P2P proxy relay of src/p2p.py: the peer registry `peers`,  *)
(* the pending request table `requests`, the WebSocket handler             *)
(* websocket_endpoint and the HTTP handler http_request.                   *)
(*                                                                         *)
(* Python strings are sequences of one-character strings, so that slicing  *)
(* (url[:50]), concatenation (the f-string of line 76) and the regular     *)
(* expression of is_valid_url are computed as the code computes them.      *)
(* A JSON object is a function from its keys to values; a key that is      *)
(* absent is absent from the function's domain (dict.get's default).       *)
(*                                                                         *)
(* Spec handles each frame in one step; FairSpec adds the fairness of the  *)
(* close of a dead connection; KeysSpec and StreamSpec run the receive     *)
(* loop step by step (Arrive, Read, Complete), the first on requests with  *)
(* long urls and named targets, the second on stream chunks.               *)
(***************************************************************************)
EXTENDS Integers, Sequences, FiniteSets, TLC

VARIABLES
  st,        \* st[s]: the life of connection s: "new", "open", "dead", "closed"
  ident,     \* ident[s]: the handler's peer_id while connection s has a handler
  peers,     \* the dict `peers` in insertion order: sequence of [id, ws]
  requests,  \* the dict `requests`: request_id -> [client_id, source_peer_id, request_type]
  requests_to_remove,  \* the list of line 159 when the last step ran the finally block
  sent,      \* what the last step delivered: set of [to, msg]
  ev,        \* the last step: [op, s, data]
  origin,    \* history: origin[request_id] is the connection whose request wrote
             \* the entry (0: the HTTP endpoint)
  inbox,     \* inbox[s]: the frames that arrived on connection s, oldest first
  taken,     \* taken[s]: how many of them receive_json has returned
  sending,   \* sending[s]: the send_json the handler of s is awaiting: set of [to, msg]
  log        \* history: log[s] is what was sent to connection s by the handlers
             \* that take their frames from inbox, in the order it was sent

\* The receive queues and what the handlers reading them do
queues == <<inbox, taken, sending, log>>

vars == <<st, ident, peers, requests, requests_to_remove, sent, ev, origin, queues>>

----------------------------------------------------------------------------
(* Bounds of the model *)

MaxSessions == 3
MaxPending == 1
\* Stream chunks that arrive in the receive queues, over all connections
MaxFrames == 3
\* Requests that arrive in the receive queues, over all connections
MaxRequests == 2
\* Entries of the table when the handlers read from the receive queues
MaxKeys == 2

Sessions == 1..MaxSessions

(* Program constant: the slice of line 76 and line 180 *)
PrefixLen == 50

----------------------------------------------------------------------------
(* Strings *)

None == <<"None">>

Alice == <<"a">>
Bob == <<"b">>
Ids == {Alice, Bob}

Http == <<"h", "t", "t", "p", ":", "/", "/">>
Https == <<"h", "t", "t", "p", "s", ":", "/", "/">>

\* A valid URL and an invalid one
UrlOk == Http \o <<"e", ".", "c">>
UrlBad == <<"n", "o", "t", "-", "a", "-", "u", "r", "l">>
Urls == {UrlOk, UrlBad}

ExplicitIds == {<<"r">>}

Whitespace == {" ", "\t", "\n", "\r"}

Min(a, b) == IF a < b THEN a ELSE b

\* url[:n]
Take(str, n) == SubSeq(str, 1, Min(n, Len(str)))

HasPrefix(str, p) == Len(str) >= Len(p) /\ SubSeq(str, 1, Len(p)) = p

\* re.match(r'^https?://[^\s/$.?#].[^\s]*$', url); a url that is no string
\* (None) raises inside re.match and the except turns it into False.
is_valid_url(url) ==
  /\ url # None
  /\ LET n == IF HasPrefix(url, Http) THEN Len(Http)
              ELSE IF HasPrefix(url, Https) THEN Len(Https) ELSE 0
         last == Len(url)
     IN /\ n > 0
        /\ last >= n + 2
        /\ url[n + 1] \notin Whitespace \cup {"/", "$", ".", "?", "#"}
        /\ url[n + 2] # "\n"
        /\ \E e \in {last, last - 1} :
             /\ e >= n + 2
             /\ \A i \in (n + 3)..e : url[i] \notin Whitespace
             /\ (e = last \/ url[last] = "\n")

----------------------------------------------------------------------------
(* JSON objects *)

Has(data, k) == k \in DOMAIN data

\* data.get(k, default)
Get(data, k, default) == IF Has(data, k) THEN data[k] ELSE default

\* The objects of D, and the objects of D with key k set to a value of V
Ext(D, k, V) ==
  D \cup { [x \in DOMAIN d \cup {k} |-> IF x = k THEN v ELSE d[x]] : d \in D, v \in V }

\* Requests: a url, with or without `from`; the valid ones with or without
\* an explicit `request_id`
RequestMsgs ==
  Ext({[type |-> <<"request">>, url |-> UrlBad]}, "from", Ids)
  \cup Ext(Ext({[type |-> <<"request">>, url |-> UrlOk]}, "from", Ids),
           "request_id", ExplicitIds)

\* The ids a reply can name: an explicit one, or the one line 76 derives
ReplyIds == ExplicitIds \cup {id \o <<"_">> \o Take(UrlOk, PrefixLen) : id \in Ids}

ReplyTypes == {<<"response">>, <<"stream_chunk">>, <<"error">>}

ReplyMsgs == [type : ReplyTypes, request_id : ReplyIds]

Msgs == RequestMsgs \cup ReplyMsgs

----------------------------------------------------------------------------
(* The dict `peers`: insertion-ordered, one WebSocket per key *)

InPeers(P, id) == \E i \in 1..Len(P) : P[i].id = id

\* peers[id]
PeerWs(P, id) == P[CHOOSE i \in 1..Len(P) : P[i].id = id].ws

\* peers[id] = ws: a key already present keeps its place and takes the new value
SetPeer(P, id, ws) ==
  IF InPeers(P, id)
  THEN [i \in 1..Len(P) |-> IF P[i].id = id THEN [id |-> id, ws |-> ws] ELSE P[i]]
  ELSE Append(P, [id |-> id, ws |-> ws])

\* if peer_id in peers: del peers[peer_id]
DelPeer(P, id) == SelectSeq(P, LAMBDA e : e.id # id)

\* next((p for p in peers if p != client_id), None)
FirstOther(P, client_id) ==
  IF \E i \in 1..Len(P) : P[i].id # client_id
  THEN P[CHOOSE i \in 1..Len(P) :
           /\ P[i].id # client_id
           /\ \A j \in 1..(i - 1) : P[j].id = client_id].id
  ELSE None

----------------------------------------------------------------------------
(* The dict `requests` *)

NoRequests == [r \in {} |-> None]

Entry(client_id, source_peer_id, request_type) ==
  [client_id |-> client_id, source_peer_id |-> source_peer_id,
   request_type |-> request_type]

\* requests[rid] = e
SetRequest(R, rid, e) ==
  [r \in DOMAIN R \cup {rid} |-> IF r = rid THEN e ELSE R[r]]

\* Mutant of RequestsToRemove: the test on source_peer_id is forgotten
RequestsToRemoveClientOnly(R, peer_id) ==
  { rid \in DOMAIN R : R[rid].client_id = peer_id }

\* The entries the finally block of websocket_endpoint removes for peer_id
RequestsToRemove(R, peer_id) ==
  { rid \in DOMAIN R :
      R[rid].source_peer_id = peer_id \/ R[rid].client_id = peer_id }

\* for rid in requests_to_remove: del requests[rid]
Without(R, rids) == [r \in DOMAIN R \ rids |-> R[r]]

Purge(R, peer_id) == Without(R, RequestsToRemove(R, peer_id))

----------------------------------------------------------------------------
(* Messages the relay builds.  method, headers and body of a request are  *)
(* copied into the fetch and never read by the relay; they are left out.  *)

\* lines 88-92 and 119-123
ErrorMsg(request_id, text) ==
  [type |-> <<"error">>, request_id |-> request_id, message |-> <<text>>]

\* lines 107-115 and 190-198
FetchMsg(url, request_id, request_type) ==
  [type |-> <<"fetch">>, url |-> url, request_id |-> request_id,
   request_type |-> request_type]

\* lines 138-142
ChunkMsg(request_id, chunk) ==
  [type |-> <<"stream_chunk">>, request_id |-> request_id, chunk |-> chunk]

\* await peers[id].send_json(msg)
SendTo(P, id, msg) == {[to |-> PeerWs(P, id), msg |-> msg]}

\* if client_id in peers: await peers[client_id].send_json(msg)
SendIfPresent(P, id, msg) == IF InPeers(P, id) THEN SendTo(P, id, msg) ELSE {}

----------------------------------------------------------------------------
(* One iteration of the receive loop of websocket_endpoint, up to its     *)
(* send: the table it leaves (reqs), the keys it wrote (made) and the     *)
(* send it attempts (out).                                                *)

\* Mutant of RequestId: the url is not cut to its first PrefixLen characters
RequestIdWholeUrl(data, peer_id) ==
  Get(data, "request_id",
      Get(data, "from", peer_id) \o <<"_">> \o Get(data, "url", <<>>))

\* line 76
RequestId(data, peer_id) ==
  Get(data, "request_id",
      Get(data, "from", peer_id) \o <<"_">> \o Take(Get(data, "url", <<>>), PrefixLen))

\* line 80
ClientId(data) == Get(data, "from", None)

\* line 103
TargetPeer(P, client_id) == FirstOther(P, client_id)

\* lines 79-123
HandleRequest(P, R, data, request_id) ==
  LET url == Get(data, "url", None)
      client_id == ClientId(data)
      request_type == Get(data, "request_type", None)
      target_peer == TargetPeer(P, client_id)
      R1 == SetRequest(R, request_id, Entry(client_id, None, request_type))
  IN IF ~is_valid_url(url)
     THEN [reqs |-> R, made |-> {},
           out |-> SendIfPresent(P, client_id, ErrorMsg(request_id, "URL invalida"))]
     ELSE IF target_peer # None
     THEN [reqs |-> SetRequest(R1, request_id,
                               Entry(client_id, target_peer, request_type)),
           made |-> {request_id},
           out |-> SendTo(P, target_peer, FetchMsg(url, request_id, request_type))]
     ELSE [reqs |-> R1, made |-> {request_id},
           out |-> SendIfPresent(P, client_id,
                                 ErrorMsg(request_id, "Nenhum peer disponivel"))]

\* The message passed on: data itself (lines 130, 150) or a rebuilt chunk (138)
Forwarded(data, request_id) ==
  IF data.type = <<"stream_chunk">>
  THEN ChunkMsg(request_id, Get(data, "chunk", None))
  ELSE data

\* if request_id in requests (lines 126, 135, 147)
Pending(R, request_id) == request_id \in DOMAIN R

\* Mutant of HandleReply: requests.setdefault(request_id, ...) in place of the
\* membership test, so that an unknown id gets an entry
HandleReplySetDefault(P, R, data, request_id) ==
  [reqs |-> IF Pending(R, request_id) THEN R
            ELSE SetRequest(R, request_id, Entry(None, None, None)),
   made |-> IF Pending(R, request_id) THEN {} ELSE {request_id},
   out |-> IF Pending(R, request_id)
           THEN SendIfPresent(P, R[request_id].client_id, Forwarded(data, request_id))
           ELSE {}]

\* lines 125-150
HandleReply(P, R, data, request_id) ==
  [reqs |-> R, made |-> {},
   out |-> IF Pending(R, request_id)
           THEN SendIfPresent(P, R[request_id].client_id, Forwarded(data, request_id))
           ELSE {}]

\* lines 75-150
Handle(P, R, data, peer_id) ==
  LET request_id == RequestId(data, peer_id)
  IN IF data.type = <<"request">>
     THEN HandleRequest(P, R, data, request_id)
     ELSE HandleReply(P, R, data, request_id)

\* Mutant of FinallyPeers: the finally block forgets lines 157-158
FinallyPeersKeep(P, peer_id) == P

\* The finally block, lines 156-161
FinallyPeers(P, peer_id) == DelPeer(P, peer_id)

FinallyRequests(R, peer_id) == Purge(R, peer_id)

----------------------------------------------------------------------------
(* The HTTP endpoint: the objects posted to /request *)

HttpMsgs == {[url |-> UrlBad]} \cup Ext({[url |-> UrlOk]}, "peer_id", Ids)

\* line 180
HttpRequestId(peer_id, url) == peer_id \o <<"_">> \o Take(url, PrefixLen)

\* lines 174-178: neither 400 is returned
HttpAccepts(P, data) ==
  is_valid_url(Get(data, "url", None)) /\ InPeers(P, Get(data, "peer_id", None))

\* lines 167-201
HandleHttp(P, R, data) ==
  LET url == Get(data, "url", None)
      peer_id == Get(data, "peer_id", None)
      request_type == Get(data, "request_type", <<"static">>)
  IN IF ~HttpAccepts(P, data)
     THEN [reqs |-> R, made |-> {}, out |-> {}]
     ELSE LET request_id == HttpRequestId(peer_id, url)
              target_peer == TargetPeer(P, peer_id)
              R1 == SetRequest(R, request_id, Entry(peer_id, None, request_type))
          IN IF target_peer # None
             THEN [reqs |-> SetRequest(R1, request_id,
                                       Entry(peer_id, target_peer, request_type)),
                   made |-> {request_id},
                   out |-> SendTo(P, target_peer,
                                  FetchMsg(url, request_id, request_type))]
             ELSE [reqs |-> R1, made |-> {request_id}, out |-> {}]

----------------------------------------------------------------------------
(* The state machine *)

\* The last step: the operation, the connection it ran on (0: none) and the
\* JSON object it received
Event(op, s, data) == [op |-> op, s |-> s, data |-> data]

NoData == [type |-> None]

Step(op, s) == Event(op, s, NoData)

\* The handler of a connection opened as peer_id ran its finally block
Left(op, s, peer_id) == Event(op, s, [type |-> None, peer_id |-> peer_id])

\* send_json on a connection whose transport has gone raises in the sender
Raises(out) == \E d \in out : st[d.to] # "open"

\* The table has room for what the step leaves in it (bound of the model)
Room(R) == Cardinality(DOMAIN R) <= MaxPending

\* The handler of connection s is running
Live(s) == st[s] \in {"open", "dead"}

\* Mutant of AtReceive: send_json is not awaited, the loop goes on reading
AtReceiveAlways(S, s) == TRUE

\* The handler of s is at line 74: it is awaiting no send
AtReceive(S, s) == S[s] = {}

\* The handler of s is at line 74 and has read every frame that arrived
Idle(s) == AtReceive(sending, s) /\ taken[s] = Len(inbox[s])

\* The history of who wrote each entry, after a step by connection s
Stamp(O, made, s, R) == [r \in DOMAIN R |-> IF r \in made THEN s ELSE O[r]]

Init ==
  /\ st = [s \in Sessions |-> "new"]
  /\ ident = [s \in Sessions |-> None]
  /\ peers = <<>>
  /\ requests = NoRequests
  /\ requests_to_remove = {}
  /\ sent = {}
  /\ ev = Step("init", 0)
  /\ origin = NoRequests
  /\ inbox = [s \in Sessions |-> <<>>]
  /\ taken = [s \in Sessions |-> 0]
  /\ sending = [s \in Sessions |-> {}]
  /\ log = [s \in Sessions |-> <<>>]

\* lines 156-161, run by the handler of connection s on the table R
Finally(s, R, made) ==
  /\ st' = [st EXCEPT ![s] = "closed"]
  /\ ident' = [ident EXCEPT ![s] = None]
  /\ peers' = FinallyPeers(peers, ident[s])
  /\ requests_to_remove' = RequestsToRemove(R, ident[s])
  /\ requests' = FinallyRequests(R, ident[s])
  /\ origin' = Stamp(origin, made, s, requests')
  /\ sent' = {}

\* lines 68-69: a connection is accepted on /ws/{peer_id}.  Connections are
\* numbered in the order they are accepted; the identities are interchangeable
\* and the first one to connect is called Alice.
Connect(s, peer_id) ==
  /\ st[s] = "new"
  /\ \A t \in 1..(s - 1) : st[t] # "new"
  /\ s = 1 => peer_id = Alice
  /\ st' = [st EXCEPT ![s] = "open"]
  /\ ident' = [ident EXCEPT ![s] = peer_id]
  /\ peers' = SetPeer(peers, peer_id, s)
  /\ requests_to_remove' = {}
  /\ sent' = {}
  /\ ev' = Step("connect", s)
  /\ UNCHANGED <<requests, origin, queues>>

\* lines 74-150, and lines 152-161 when the send raises.  The handler awaits
\* only in receive_json and send_json: nothing runs between its writes to
\* `requests` (lines 96-105), and after the send it writes nothing unless the
\* send raises.  A finally block that runs after other handlers took steps
\* is the step Close or Malformed of the same connection.  The frame arrives
\* at a handler that has nothing else to read and is handled in one step, its
\* send included; Arrive, Read and Complete below are the same in three steps.
Receive(s, data) ==
  /\ st[s] = "open"
  /\ Idle(s)
  /\ LET h == Handle(peers, requests, data, ident[s])
     IN /\ Room(h.reqs)
        /\ IF Raises(h.out)
           THEN Finally(s, h.reqs, h.made)
           ELSE /\ sent' = h.out
                /\ requests' = h.reqs
                /\ origin' = Stamp(origin, h.made, s, h.reqs)
                /\ requests_to_remove' = {}
                /\ UNCHANGED <<peers, st, ident>>
  /\ ev' = Event("recv", s, data)
  /\ UNCHANGED queues

\* The transport of connection s goes away; its handler has not yet seen it
Disconnect(s) ==
  /\ st[s] = "open"
  /\ st' = [st EXCEPT ![s] = "dead"]
  /\ requests_to_remove' = {}
  /\ sent' = {}
  /\ ev' = Step("disconnect", s)
  /\ UNCHANGED <<ident, peers, requests, origin, queues>>

\* line 74 raises WebSocketDisconnect: lines 152-161
Close(s) ==
  /\ st[s] = "dead"
  /\ Idle(s)
  /\ Finally(s, requests, {})
  /\ ev' = Left("close", s, ident[s])
  /\ UNCHANGED queues

\* line 74 raises on a frame that is no JSON: lines 154-161
Malformed(s) ==
  /\ st[s] = "open"
  /\ Idle(s)
  /\ Finally(s, requests, {})
  /\ ev' = Left("malformed", s, ident[s])
  /\ UNCHANGED queues

\* lines 165-201; a send that raises leaves the handler with no cleanup
HttpRequest(data) ==
  /\ LET h == HandleHttp(peers, requests, data)
     IN /\ Room(h.reqs)
        /\ requests' = h.reqs
        /\ origin' = Stamp(origin, h.made, 0, h.reqs)
        /\ sent' = IF Raises(h.out) THEN {} ELSE h.out
  /\ requests_to_remove' = {}
  /\ ev' = Event("http", 0, data)
  /\ UNCHANGED <<st, ident, peers, queues>>

Next ==
  \/ \E s \in Sessions, peer_id \in Ids : Connect(s, peer_id)
  \/ \E s \in Sessions, data \in Msgs : Receive(s, data)
  \/ \E s \in Sessions : Disconnect(s)
  \/ \E s \in Sessions : Close(s)
  \/ \E s \in Sessions : Malformed(s)
  \/ \E data \in HttpMsgs : HttpRequest(data)

Spec == Init /\ [][Next]_vars

\* receive_json of a connection whose transport has gone raises
\* WebSocketDisconnect as soon as the event loop resumes the handler: the
\* close step of a dead connection is not postponed for ever.
FairSpec == Spec /\ \A s \in Sessions : WF_vars(Close(s))

----------------------------------------------------------------------------
(* The receive loop step by step: a frame arrives in the receive queue of  *)
(* its connection (Arrive); receive_json returns the oldest unread frame   *)
(* and the handler runs up to its send_json (Read); the send completes or  *)
(* raises (Complete).  Between the steps of one handler the other handlers *)
(* run.                                                                    *)

RECURSIVE Frames(_, _)
\* The frames that arrived on connections 1..n
Frames(I, n) == IF n = 0 THEN 0 ELSE Len(I[n]) + Frames(I, n - 1)

\* line 74: receive_json returns the oldest frame not yet read
NextFrame(I, T, s) == I[s][T[s] + 1]

Arrive(s, data) ==
  /\ st[s] = "open"
  /\ inbox' = [inbox EXCEPT ![s] = Append(@, data)]
  /\ requests_to_remove' = {}
  /\ sent' = {}
  /\ ev' = Step("arrive", s)
  /\ UNCHANGED <<st, ident, peers, requests, origin, taken, sending, log>>

\* lines 74-150 up to the await of the send
Read(s) ==
  /\ Live(s)
  /\ AtReceive(sending, s)
  /\ taken[s] < Len(inbox[s])
  /\ LET data == NextFrame(inbox, taken, s)
         h == Handle(peers, requests, data, ident[s])
     IN /\ Cardinality(DOMAIN h.reqs) <= MaxKeys
        /\ requests' = h.reqs
        /\ origin' = Stamp(origin, h.made, s, h.reqs)
        /\ sending' = [sending EXCEPT ![s] = @ \cup h.out]
        /\ ev' = Event("recv", s, data)
  /\ taken' = [taken EXCEPT ![s] = @ + 1]
  /\ requests_to_remove' = {}
  /\ sent' = {}
  /\ UNCHANGED <<st, ident, peers, inbox, log>>

\* The send_json the handler of s awaits returns, or raises: lines 152-161
Complete(s) ==
  /\ \E d \in sending[s] :
       /\ sending' = [sending EXCEPT ![s] = @ \ {d}]
       /\ IF Raises({d})
          THEN /\ Finally(s, requests, {})
               /\ UNCHANGED log
          ELSE /\ sent' = {d}
               /\ log' = [log EXCEPT ![d.to] = Append(@, d.msg)]
               /\ requests_to_remove' = {}
               /\ UNCHANGED <<st, ident, peers, requests, origin>>
  /\ ev' = Step("sent", s)
  /\ UNCHANGED <<inbox, taken>>

----------------------------------------------------------------------------
(* Requests that differ in the fields line 76 reads: urls longer than the  *)
(* slice, an explicit request_id, no `from`; and requests that name a      *)
(* target_peer_id.                                                         *)

Carol == <<"c">>

Static == <<"static">>
Stream == <<"stream">>

Pad(n) == [i \in 1..n |-> "x"]

\* Two valid urls that agree on their first PrefixLen characters and differ
\* in the next one
UrlLong1 == Http \o Pad(PrefixLen - Len(Http)) \o <<"1">>
UrlLong2 == Http \o Pad(PrefixLen - Len(Http)) \o <<"2">>

Request(url, request_type) ==
  [type |-> <<"request">>, url |-> url, request_type |-> request_type]

KeyMsgs ==
  Ext({Request(UrlLong1, Static), Request(UrlLong2, Stream)}, "from", {Alice})
  \cup { [type |-> <<"request">>, url |-> UrlLong1, request_type |-> Static,
          from |-> Alice, request_id |-> r] : r \in ExplicitIds }
  \cup { [type |-> <<"request">>, url |-> UrlLong2, request_type |-> Stream,
          from |-> Alice, target_peer_id |-> t] : t \in {Bob, Carol} }

HttpKeyMsgs == {[url |-> UrlLong2, peer_id |-> Alice]}

NextKeys ==
  \/ \E s \in Sessions, peer_id \in Ids : Connect(s, peer_id)
  \/ /\ Frames(inbox, MaxSessions) < MaxRequests
     /\ \E s \in Sessions, data \in KeyMsgs : Arrive(s, data)
  \/ \E s \in Sessions : Read(s)
  \/ \E s \in Sessions : Complete(s)
  \/ \E data \in HttpKeyMsgs : HttpRequest(data)

KeysSpec == Init /\ [][NextKeys]_vars

----------------------------------------------------------------------------
(* Streams: a request posted for Alice, and stream chunks for it that      *)
(* carry the connection they arrive on and their rank among the frames of  *)
(* that connection.                                                        *)

StreamRequest == [url |-> UrlOk, peer_id |-> Alice, request_type |-> Stream]

StreamId == HttpRequestId(StreamRequest.peer_id, StreamRequest.url)

StreamMsgs(s, n) ==
  {[type |-> <<"stream_chunk">>, request_id |-> StreamId, chunk |-> <<s, n>>]}

NextStream ==
  \/ \E s \in Sessions, peer_id \in Ids : Connect(s, peer_id)
  \/ HttpRequest(StreamRequest)
  \/ /\ Frames(inbox, MaxSessions) < MaxFrames
     /\ \E s \in Sessions :
          \E data \in StreamMsgs(s, Len(inbox[s]) + 1) : Arrive(s, data)
  \/ \E s \in Sessions : Read(s)
  \/ \E s \in Sessions : Complete(s)
  \/ \E s \in Sessions : Disconnect(s)
  \/ \E s \in Sessions : Close(s)

StreamSpec == Init /\ [][NextStream]_vars

----------------------------------------------------------------------------
(* Vocabulary of the properties *)

Registered(P) == {P[i].id : i \in 1..Len(P)}

Fetches(S) == {d \in S : d.msg.type = <<"fetch">>}

Errors(S) == {d \in S : d.msg.type = <<"error">>}

\* The last step handled a message of connection s
Received(e) == e.op = "recv"

ReceivedRequest(e) == Received(e) /\ e.data.type = <<"request">>

ReceivedReply(e) == Received(e) /\ e.data.type \in ReplyTypes

Posted(e) == e.op = "http"

----------------------------------------------------------------------------
(* C1: a request with a valid URL that finds no executor, because no       *)
(* identity other than the requester is registered, creates no entry and   *)
(* forwards no fetch: the table after the request is the table before it.  *)
(* The same for a request posted to the HTTP endpoint.                     *)
NoExecutorNoPending ==
  [][/\ ( /\ ReceivedRequest(ev')
          /\ is_valid_url(Get(ev'.data, "url", None))
          /\ Registered(peers) \ {ident[ev'.s]} = {} )
        => (requests' = requests /\ Fetches(sent') = {})
     /\ ( /\ Posted(ev')
          /\ is_valid_url(Get(ev'.data, "url", None))
          /\ Registered(peers) \ {Get(ev'.data, "peer_id", None)} = {} )
        => (requests' = requests /\ Fetches(sent') = {})
    ]_vars

(* C2: a request whose URL fails validation changes neither the registry   *)
(* nor the table, and forwards no fetch, whoever is registered.            *)
InvalidUrlNoMutation ==
  [][( /\ ReceivedRequest(ev') \/ Posted(ev')
       /\ ~is_valid_url(Get(ev'.data, "url", None)) )
     => (peers' = peers /\ requests' = requests /\ Fetches(sent') = {})
    ]_vars

(* C3: the connection that sent a rejected request (invalid URL, or no     *)
(* executor) receives an error carrying the request's correlation id,      *)
(* whatever the request's `from` field.                                    *)
RejectedSenderGetsError ==
  [][( /\ ReceivedRequest(ev')
       /\ \/ ~is_valid_url(Get(ev'.data, "url", None))
          \/ TargetPeer(peers, ClientId(ev'.data)) = None )
     => \E d \in Errors(sent') :
          /\ d.to = ev'.s
          /\ d.msg.request_id = RequestId(ev'.data, ident[ev'.s])
    ]_vars

(* C4: the executor of an accepted request, recorded in the entry and      *)
(* receiving the fetch, is a registered identity other than the requester  *)
(* (the `from` field or, without one, the identity of the sending          *)
(* connection); no peer receives the fetch of its own request.             *)
ExecutorIsAnotherPeer ==
  [][/\ (ReceivedRequest(ev') /\ Fetches(sent') # {})
        => LET requester == Get(ev'.data, "from", ident[ev'.s])
               entry == requests'[RequestId(ev'.data, ident[ev'.s])]
           IN \A d \in Fetches(sent') :
                /\ entry.source_peer_id = ident[d.to]
                /\ ident[d.to] \in Registered(peers')
                /\ ident[d.to] # requester
                /\ d.to # ev'.s
     /\ (Posted(ev') /\ Fetches(sent') # {})
        => \A d \in Fetches(sent') :
             /\ requests'[HttpRequestId(ev'.data.peer_id, ev'.data.url)].source_peer_id
                  = ident[d.to]
             /\ ident[d.to] \in Registered(peers')
             /\ ident[d.to] # ev'.data.peer_id
    ]_vars

(* C5: a response, stream_chunk or error whose correlation id is no key of *)
(* the table is forwarded to nobody and changes neither table nor registry.*)
UnknownIdDropped ==
  [][( /\ ReceivedReply(ev')
       /\ ~Pending(requests, RequestId(ev'.data, ident[ev'.s])) )
     => (sent' = {} /\ requests' = requests /\ peers' = peers /\ st' = st)
    ]_vars

\* A reply naming an id the non-empty table does not hold was handled
UnknownIdDroppedWitness ==
  /\ ReceivedReply(ev)
  /\ requests # NoRequests
  /\ ~Pending(requests, RequestId(ev.data, ident[ev.s]))
  /\ sent = {}

----------------------------------------------------------------------------
(* More vocabulary *)

Responses(S) == {d \in S : d.msg.type = <<"response">>}

\* Connection s runs its finally block in this step
Closes(s) == Live(s) /\ st'[s] = "closed"

\* Another connection opened under the identity of s still has a handler
HasSibling(s) == \E t \in Sessions \ {s} : Live(t) /\ ident[t] = ident[s]

Mentions(entry, id) == entry.client_id = id \/ entry.source_peer_id = id

(* C6: round trip.  When peer A sends a valid request and another peer B   *)
(* is its executor, B receives a fetch carrying the resolved correlation   *)
(* id and `from` equal to A's identity; when a connection of B then sends  *)
(* a response with that id while A's connection is open, A's connection    *)
(* receives exactly the response.                                          *)
RoundTrip ==
  [][/\ ReceivedRequest(ev')
        => \A d \in Fetches(sent') :
             ident[d.to] # ident[ev'.s]
             => /\ d.msg.request_id = RequestId(ev'.data, ident[ev'.s])
                /\ Has(d.msg, "from")
                /\ d.msg.from = ident[ev'.s]
     /\ ( /\ Received(ev') /\ ev'.data.type = <<"response">>
          /\ LET rid == RequestId(ev'.data, ident[ev'.s])
             IN /\ Pending(requests, rid)
                /\ requests[rid].source_peer_id = ident[ev'.s]
                /\ origin[rid] \in Sessions
                /\ st[origin[rid]] = "open" )
        => [to |-> origin[RequestId(ev'.data, ident[ev'.s])], msg |-> ev'.data]
             \in sent'
    ]_vars

(* C7: closing one connection of an identity never unregisters another     *)
(* open connection of that identity: after the close the identity is still *)
(* in the registry and what is routed to it reaches an open connection.    *)
SiblingCloseKeepsRegistration ==
  [][\A s \in Sessions : \A t \in Sessions \ {s} :
       (Closes(s) /\ st'[t] = "open" /\ ident[t] = ident[s])
       => /\ InPeers(peers', ident[t])
          /\ st'[PeerWs(peers', ident[t])] = "open"
    ]_vars

(* C8: a fetch routed to an identity as the executor of another peer's     *)
(* request, and a response for an identity's own request, is delivered to  *)
(* every open connection of that identity.                                 *)
FanOut ==
  \A d \in Fetches(sent) \cup Responses(sent) :
    (Received(ev) /\ d \in Fetches(sent) => ident[d.to] # ident[ev.s])
    => \A t \in Sessions :
         (st[t] = "open" /\ ident[t] = ident[d.to])
         => [to |-> t, msg |-> d.msg] \in sent

(* C9: closing a connection of an identity that still has another open     *)
(* connection removes no entry naming that identity as requester or        *)
(* executor.                                                               *)
SiblingClosePurgesNothing ==
  [][\A s \in Sessions :
       (Closes(s) /\ \E t \in Sessions \ {s} : st'[t] = "open" /\ ident[t] = ident[s])
       => \A rid \in DOMAIN requests :
            Mentions(requests[rid], ident[s]) => rid \in DOMAIN requests'
    ]_vars

----------------------------------------------------------------------------
(* Vocabulary of the later properties *)

\* The send the handler of the last step attempted, seen from the state
\* before the step
Attempted(e) == Handle(peers, requests, e.data, ident[e.s]).out

\* Connection t is stored in the registry P
Stored(P, t) == \E i \in 1..Len(P) : P[i].ws = t

(* C11: when the send a message triggers fails because the target          *)
(* connection is dead, the dead connection leaves the registry, nothing is *)
(* sent to any peer, and the connection whose message triggered the send   *)
(* stays open and registered and keeps its entries.                        *)
SendFailureSparesSender ==
  [][Received(ev')
     => \A d \in Attempted(ev') :
          st[d.to] = "dead"
          => /\ ~Stored(peers', d.to)
             /\ sent' = {}
             /\ st'[ev'.s] = "open"
             /\ InPeers(peers', ident[ev'.s])
             /\ \A rid \in DOMAIN requests :
                  Mentions(requests[rid], ident[ev'.s]) => rid \in DOMAIN requests'
    ]_vars

(* C12: a frame that cannot be decoded does not end the connection: after  *)
(* it the connection is open, the registry and the table are unchanged,    *)
(* and the connection can go on sending messages.                          *)
MalformedKeepsSession ==
  [][ev'.op = "malformed"
     => /\ st'[ev'.s] = "open"
        /\ peers' = peers
        /\ requests' = requests
    ]_vars

(* C15: in every reachable state the requester of every entry is a         *)
(* registered identity, and so is its executor when one is set.            *)
EntriesNameRegistered ==
  \A rid \in DOMAIN requests :
    /\ requests[rid].client_id \in Registered(peers)
    /\ requests[rid].source_peer_id # None
       => requests[rid].source_peer_id \in Registered(peers)

(* C16: handling a response, stream_chunk or error, forwarded or not,      *)
(* changes neither the table nor the registry; an entry leaves the table   *)
(* only in a step that closes a connection whose identity is the entry's   *)
(* requester or executor.                                                  *)
RepliesChangeNothing ==
  [][/\ ReceivedReply(ev') => (requests' = requests /\ peers' = peers)
     /\ \A rid \in DOMAIN requests \ DOMAIN requests' :
          \E s \in Sessions : Closes(s) /\ Mentions(requests[rid], ident[s])
    ]_vars

(* C18: a response, stream_chunk or error is forwarded only to a           *)
(* connection of the identity whose own connection sent the request that   *)
(* wrote the entry of its correlation id.                                  *)
RepliesReachCreator ==
  [][ReceivedReply(ev')
     => \A d \in sent' :
          LET creator == origin[RequestId(ev'.data, ident[ev'.s])]
          IN creator \in Sessions => ident[d.to] = ident[creator]
    ]_vars

(* C19: a response, stream_chunk or error is forwarded only when the       *)
(* connection that sent it belongs to the executor recorded in the entry   *)
(* of its correlation id.                                                  *)
OnlyExecutorForwards ==
  [][(ReceivedReply(ev') /\ sent' # {})
     => requests[RequestId(ev'.data, ident[ev'.s])].source_peer_id = ident[ev'.s]
    ]_vars

(* C20: every connection stored in the registry was accepted and has not   *)
(* run its finally block, whatever connects, messages and disconnects came *)
(* before; and every connection whose transport has gone eventually runs   *)
(* its finally block and ends.                                             *)
RegistryHoldsLiveSessions ==
  /\ [](\A i \in 1..Len(peers) : Live(peers[i].ws))
  /\ \A s \in Sessions : (st[s] = "dead") ~> (st[s] = "closed")

\* A dead connection has run its finally block while the registry still
\* holds another connection, and some identity was used by two connections
RegistryHoldsLiveSessionsWitness ==
  /\ ev.op = "close"
  /\ st[ev.s] = "closed"
  /\ peers # <<>>
  /\ \E t \in Sessions \ {ev.s} : Live(t) /\ ident[t] = ev.data.peer_id

----------------------------------------------------------------------------
(* Vocabulary of the properties of KeysSpec and StreamSpec *)

\* What the handler of the last step began to send
Began(e) == sending'[e.s] \ sending[e.s]

\* The first n characters of a string
Prefix(str, n) == [i \in 1..(IF Len(str) < n THEN Len(str) ELSE n) |-> str[i]]

\* The id a request is to have: the supplied one, or else the requester,
\* an underscore and the first 50 characters of the url
Correlation(data, requester) ==
  IF Has(data, "request_id") THEN data.request_id
  ELSE requester \o <<"_">> \o Prefix(data.url, 50)

IsFetch(msg) == msg.type = <<"fetch">>

IsChunk(msg) == msg.type = <<"stream_chunk">>

(* C13: a request that names a registered target_peer_id has its fetch     *)
(* sent to that identity, which the entry records as executor; one that    *)
(* names an unregistered target gets an error back on its own connection,  *)
(* no fetch is sent and the table is unchanged.                            *)
NamedTargetIsExecutor ==
  [][(ReceivedRequest(ev') /\ Has(ev'.data, "target_peer_id"))
     => LET target == ev'.data.target_peer_id
            out == Began(ev')
        IN IF InPeers(peers, target)
           THEN /\ out # {}
                /\ \A d \in out : IsFetch(d.msg) /\ d.to = PeerWs(peers, target)
                /\ requests'[RequestId(ev'.data, ident[ev'.s])].source_peer_id = target
           ELSE /\ Fetches(out) = {}
                /\ \E d \in Errors(out) : d.to = ev'.s
                /\ requests' = requests
    ]_vars

(* C14: the correlation id of an accepted request is the supplied          *)
(* request_id verbatim, and otherwise the requester identity (`from`, or   *)
(* the identity of the connection when there is none; peer_id for a posted *)
(* request), an underscore and the first 50 characters of the url.  The    *)
(* request writes the entry of that id and no other: a second request with *)
(* the same id adds no entry and leaves its own data in the entry.  The    *)
(* fetch carries the same id.                                              *)
CorrelationIdDerivation ==
  [][/\ (ReceivedRequest(ev') /\ is_valid_url(Get(ev'.data, "url", None)))
        => LET data == ev'.data
               rid == Correlation(data, Get(data, "from", ident[ev'.s]))
           IN /\ \A d \in Began(ev') : d.msg.request_id = rid
              /\ Fetches(Began(ev')) # {}
                 => /\ DOMAIN requests' = DOMAIN requests \cup {rid}
                    /\ requests'[rid].client_id = Get(data, "from", None)
                    /\ requests'[rid].request_type = Get(data, "request_type", None)
                    /\ \A other \in DOMAIN requests \ {rid} :
                         requests'[other] = requests[other]
                    /\ \A d \in Began(ev') : d.msg.url = data.url
     /\ (Posted(ev') /\ HttpAccepts(peers, ev'.data))
        => LET data == ev'.data
               rid == Correlation(data, data.peer_id)
           IN sent' # {}
              => /\ DOMAIN requests' = DOMAIN requests \cup {rid}
                 /\ requests'[rid].client_id = data.peer_id
                 /\ \A other \in DOMAIN requests \ {rid} :
                      requests'[other] = requests[other]
                 /\ \A d \in sent' : d.msg.request_id = rid /\ d.msg.url = data.url
    ]_vars

\* One executor was sent the fetches of two requests for urls longer than 50
\* characters that differ after the 50th: they carry one id, the table holds
\* one entry, and the entry has the request_type of the second, not the first
CorrelationIdDerivationWitness ==
  \E t \in Sessions : \E i, j \in 1..Len(log[t]) :
    /\ i < j
    /\ IsFetch(log[t][i]) /\ IsFetch(log[t][j])
    /\ log[t][i].url # log[t][j].url
    /\ Len(log[t][i].url) > 50 /\ Len(log[t][j].url) > 50
    /\ log[t][i].request_id = log[t][j].request_id
    /\ Len(log[t][j].request_id) = 1 + 1 + 50
    /\ DOMAIN requests = {log[t][j].request_id}
    /\ requests[log[t][j].request_id].request_type = log[t][j].request_type
    /\ log[t][i].request_type # log[t][j].request_type

(* C17: the stream chunks one connection sent for one correlation id reach *)
(* the requester's connection in the order they arrived from the sender,   *)
(* none before an earlier one and none twice, whatever the other           *)
(* connections send in between.                                            *)
ChunksInOrder ==
  \A t \in Sessions : \A i, j \in 1..Len(log[t]) :
    ( /\ i < j
      /\ IsChunk(log[t][i]) /\ IsChunk(log[t][j])
      /\ log[t][i].request_id = log[t][j].request_id
      /\ log[t][i].chunk[1] = log[t][j].chunk[1] )
    => log[t][i].chunk[2] < log[t][j].chunk[2]

\* The requester's connection received two chunks of one connection in
\* their order, with a chunk of another connection between them
ChunksInOrderWitness ==
  \E t \in Sessions : \E i, k, j \in 1..Len(log[t]) :
    /\ i < k /\ k < j
    /\ IsChunk(log[t][i]) /\ IsChunk(log[t][k]) /\ IsChunk(log[t][j])
    /\ log[t][i].chunk[1] = log[t][j].chunk[1]
    /\ log[t][k].chunk[1] # log[t][i].chunk[1]
    /\ log[t][i].chunk[2] < log[t][j].chunk[2]
    /\ ident[t] = StreamRequest.peer_id

====
